---- MODULE Spec2Model ----
(***************************************************************************)
(* Model of scripts/external_link_checker.py: the MkDocs hook              *)
(* on_page_content, which rewrites the anchor tags of a rendered page, and *)
(* the pass-through hook on_config.                                        *)
(*                                                                         *)
(* Page text is a string; TLC treats a string as the sequence of its       *)
(* characters (Len, SubSeq and \o apply to it), so the regular expression, *)
(* str.replace, the `in` tests and urlparse are modelled character by      *)
(* character.  re.sub is modelled as the loop it is: one step per match,   *)
(* each step calling replace_external_link on the match.                   *)
(***************************************************************************)
EXTENDS Naturals, Sequences, FiniteSets, TLC

VARIABLES
    doc,          \* the anchor the host rendered: [lead, attrs, trail]
    config,       \* the build configuration handed to the hooks (a mapping)
    html,         \* the html argument of the current on_page_content call
    calls,        \* how many times the host has invoked on_page_content
    pc,           \* "config" | "idle" | "sub" | "returned" | "raised"
    pos,          \* re.sub: index in html where the scan resumes (1-based)
    match,        \* re.sub: the next match found from pos on, or NoMatch
    processed,    \* re.sub: output built so far; the return value at "returned"
    matched,      \* whether the last re.sub step handled a match
    full_match,   \* match.group(0) of the last match
    href,         \* match.group(1) of the last match
    replaced      \* what replace_external_link returned for the last match

vars == <<doc, config, html, calls, pc, pos, match, processed, matched,
          full_match, href, replaced>>

(***************************************************************************)
(* Bounds of the model.                                                    *)
(***************************************************************************)
\* attributes of the anchor tag that the page is built around
MaxAttrs == 2
\* invocations of on_page_content by the host; each later one is fed the
\* previous one's return value
MaxCalls == 2

(***************************************************************************)
(* Python string primitives used by the hook.                              *)
(***************************************************************************)
\* s[k..k+len(lit)-1] == lit
At(s, k, lit) ==
    /\ k >= 1
    /\ k + Len(lit) - 1 <= Len(s)
    /\ SubSeq(s, k, k + Len(lit) - 1) = lit

Ch(s, k) == SubSeq(s, k, k)

Min(S) == CHOOSE i \in S : \A j \in S : i <= j
Max(S) == CHOOSE i \in S : \A j \in S : j <= i

\* str.find, 1-based: the least index >= k where sub occurs in s, 0 if none
Find(s, sub, k) ==
    LET S == {i \in k..(Len(s) - Len(sub) + 1) : SubSeq(s, i, i + Len(sub) - 1) = sub}
    IN  IF S = {} THEN 0 ELSE Min(S)

\* `sub in s`
Contains(s, sub) == Find(s, sub, 1) # 0

\* s.replace(old, new): every non-overlapping occurrence, left to right
RECURSIVE Replace(_, _, _)
Replace(s, old, new) ==
    LET i == Find(s, old, 1) IN
    IF i = 0 THEN s
    ELSE SubSeq(s, 1, i - 1) \o new
         \o Replace(SubSeq(s, i + Len(old), Len(s)), old, new)

\* the least index >= k of a character of s that is in stops; Len(s)+1 if none
RunEnd(s, k, stops) ==
    LET S == {i \in k..Len(s) : Ch(s, i) \in stops}
    IN  IF S = {} THEN Len(s) + 1 ELSE Min(S)

\* the whitespace the model's alphabet has (\s of the pattern, and the
\* characters urlsplit strips and removes)
Whitespace == {" ", "\t", "\n", "\r"}

\* the least index >= k of a character of s that is not whitespace; Len(s)+1
\* if none
SpaceEnd(s, k) ==
    LET S == {i \in k..Len(s) : Ch(s, i) \notin Whitespace}
    IN  IF S = {} THEN Len(s) + 1 ELSE Min(S)

(***************************************************************************)
(* urllib.parse.urlparse, as far as the hook reads it: the netloc, or the  *)
(* ValueError that urlsplit raises.                                        *)
(***************************************************************************)
Lower == {"a","b","c","d","e","f","g","h","i","j","k","l","m",
          "n","o","p","q","r","s","t","u","v","w","x","y","z"}
Upper == {"A","B","C","D","E","F","G","H","I","J","K","L","M",
          "N","O","P","Q","R","S","T","U","V","W","X","Y","Z"}
Digit == {"0","1","2","3","4","5","6","7","8","9"}
scheme_chars == Lower \cup Upper \cup Digit \cup {"+", "-", "."}

\* url.lstrip(_WHATWG_C0_CONTROL_OR_SPACE)
LStrip(url) == SubSeq(url, SpaceEnd(url, 1), Len(url))

\* for b in _UNSAFE_URL_BYTES_TO_REMOVE: url = url.replace(b, "")
RemoveUnsafe(url) == Replace(Replace(Replace(url, "\t", ""), "\r", ""), "\n", "")

\* every character of url[:i] is a scheme character
AllSchemeChars(url, i) == \A k \in 1..i : Ch(url, k) \in scheme_chars

\* url with its scheme and the colon removed, when it has a scheme
StripScheme(url) ==
    LET i == Find(url, ":", 1) IN
    IF /\ i > 1
       /\ Ch(url, 1) \in Lower \cup Upper
       /\ AllSchemeChars(url, i - 1)
    THEN SubSeq(url, i + 1, Len(url))
    ELSE url

\* _splitnetloc(url, 2)[0]: from after "//" up to the first of / ? #
SplitNetloc(url) == SubSeq(url, 3, RunEnd(url, 3, {"/", "?", "#"}) - 1)

\* the bracketed hosts ipaddress.ip_address accepts as IPv6, within the
\* model's alphabet
IPv6Literals == {"::1"}

\* netloc.partition('[')[2].partition(']')[0]
BracketedHost(netloc) ==
    LET a == Find(netloc, "[", 1)
        rest == SubSeq(netloc, a + 1, Len(netloc))
        b == Find(rest, "]", 1)
    IN  IF b = 0 THEN rest ELSE SubSeq(rest, 1, b - 1)

urlparse(url0) ==
    LET url == StripScheme(RemoveUnsafe(LStrip(url0)))
        netloc == IF At(url, 1, "//") THEN SplitNetloc(url) ELSE ""
        open == Contains(netloc, "[")
        close == Contains(netloc, "]")
    IN  IF open # close
        THEN [raises |-> TRUE, netloc |-> ""]
        ELSE IF open /\ close /\ BracketedHost(netloc) \notin IPv6Literals
        THEN [raises |-> TRUE, netloc |-> ""]
        ELSE [raises |-> FALSE, netloc |-> netloc]

(***************************************************************************)
(* link_pattern = r'<a\s+[^>]*href=["\']([^"\']+)["\'][^>]*>'              *)
(***************************************************************************)
Quotes == {"\"", "'"}

NoMatch == [found |-> FALSE, start |-> 0, end |-> 0, group0 |-> "", group1 |-> ""]

\* href=["\']([^"\']+)["\'][^>]*> matches at j: a quote after href=, a
\* non-empty run of non-quotes, a quote, and a later >
HrefAt(s, j) ==
    /\ At(s, j, "href=")
    /\ j + 5 <= Len(s)
    /\ Ch(s, j + 5) \in Quotes
    /\ LET ve == RunEnd(s, j + 6, Quotes) IN
       /\ ve > j + 6
       /\ ve <= Len(s)
       /\ RunEnd(s, ve + 1, {">"}) <= Len(s)

\* The match of link_pattern that starts at i, or none.  \s+ and [^>]* are
\* greedy, so of the places where href= can start (after the whitespace, before
\* the first >) the engine keeps the last one at which the rest matches.
MatchAt(s, i) ==
    LET p0 == SpaceEnd(s, i + 2)
        m == RunEnd(s, p0, {">"})
        js == {j \in p0..(m - 5) : HrefAt(s, j)}
    IN  IF At(s, i, "<a") /\ p0 > i + 2 /\ js # {}
        THEN LET j == Max(js)
                 ve == RunEnd(s, j + 6, Quotes)
                 end == RunEnd(s, ve + 1, {">"})
             IN  [found |-> TRUE, start |-> i, end |-> end,
                  group0 |-> SubSeq(s, i, end),
                  group1 |-> SubSeq(s, j + 6, ve - 1)]
        ELSE NoMatch

\* re's scan: the leftmost match starting at or after k
RECURSIVE Search(_, _)
Search(s, k) ==
    LET i == Find(s, "<a", k) IN
    IF i = 0 THEN NoMatch
    ELSE LET m == MatchAt(s, i) IN
         IF m.found THEN m ELSE Search(s, i + 1)

(***************************************************************************)
(* replace_external_link(match): the replacement for one match, or the     *)
(* ValueError of urlparse.                                                 *)
(***************************************************************************)
\* config.get(key, default)
ConfigGet(cfg, key, default) == IF key \in DOMAIN cfg THEN cfg[key] ELSE default

Loopback == {"localhost", "127.0.0.1"}

\* a replacement text that loses the href= it replaces
TargetHrefDropped == "target=\"_blank\" "

TargetHref == "target=\"_blank\" href="
RelHref == "rel=\"noopener noreferrer\" href="

\* if 'target=' not in full_match: full_match.replace('href=', ...)
AddTarget(tag) ==
    IF ~Contains(tag, "target=") THEN Replace(tag, "href=", TargetHref) ELSE tag

\* the rel directive added without looking for an existing rel=
AddRelUnchecked(tag) == Replace(tag, "href=", RelHref)

\* if 'rel=' not in full_match: full_match.replace('href=', ...)
AddRel(tag) ==
    IF ~Contains(tag, "rel=") THEN Replace(tag, "href=", RelHref) ELSE tag

Returns(v) == [raises |-> FALSE, value |-> v]
Raises == [raises |-> TRUE, value |-> ""]

replace_external_link(group0, group1, cfg) ==
    LET parsed == urlparse(group1)
        site_url == ConfigGet(cfg, "site_url", "")
        site == urlparse(site_url)
    IN  IF parsed.raises THEN Raises
        ELSE IF parsed.netloc # "" /\ parsed.netloc \notin Loopback
        THEN IF site_url # ""
             THEN IF site.raises THEN Raises
                  ELSE IF parsed.netloc # site.netloc
                  THEN Returns(AddRel(AddTarget(group0)))
                  ELSE Returns(group0)
             ELSE Returns(group0)
        ELSE Returns(group0)

\* on_config(config): returns its argument
on_config(cfg) == cfg

(***************************************************************************)
(* The pages the host renders: one anchor tag with up to MaxAttrs          *)
(* attributes, between a lead and a trail of surrounding page text.        *)
(***************************************************************************)
Attr(n, q, v) == [name |-> n, quote |-> q, value |-> v]

HrefValues ==
    { "https://o.org/x",                   \* another host
      "https://d.io/p",                    \* the site's own host
      "../page/",                          \* relative
      "#f",                                \* fragment only
      "mailto:a@d.io",                     \* no authority
      "http://localhost:8000/x",           \* loopback, with a port
      "http://127.0.0.1/x",                \* loopback
      "http://[o",                         \* unbalanced bracket in the authority
      "https://o.org/go?href=x>y" }        \* href= and > inside the value

HrefAttrs ==
    {Attr("href", "\"", v) : v \in HrefValues} \cup {Attr("href", "'", "https://o.org/x")}

OtherAttrs ==
    { Attr("data-href", "\"", "https://o.org/x"),
      Attr("rel", "\"", "nofollow"),
      Attr("target", "'", "_self"),
      Attr("class", "\"", "c") }

Attributes == HrefAttrs \cup OtherAttrs

\* an element has each attribute name at most once
DistinctNames(as) == \A i, j \in 1..Len(as) : as[i].name = as[j].name => i = j

RECURSIVE AttrSeqs(_)
AttrSeqs(n) ==
    IF n = 0 THEN {<<>>}
    ELSE LET S == AttrSeqs(n - 1) IN
         S \cup {Append(as, a) : as \in {x \in S : Len(x) = n - 1}, a \in Attributes}

Contexts ==
    { [lead |-> "", trail |-> "t</a>"],
      [lead |-> "<p><area href=\"https://o.org/m\"> ", trail |-> "t</a></p>"],
      [lead |-> "", trail |-> "t</a>\n<a href=\"https://o.org/y\">y</a>"] }

Docs ==
    {[lead |-> c.lead, attrs |-> as, trail |-> c.trail] :
        c \in Contexts, as \in {x \in AttrSeqs(MaxAttrs) : DistinctNames(x)}}

Configs ==
    { <<>>,                                   \* no site_url entry
      [site_url |-> ""],
      [site_url |-> "https://d.io/docs/"],
      [site_url |-> "http://[d"] }

RECURSIVE RenderAttrs(_)
RenderAttrs(as) ==
    IF as = <<>> THEN ""
    ELSE " " \o Head(as).name \o "=" \o Head(as).quote \o Head(as).value
         \o Head(as).quote \o RenderAttrs(Tail(as))

RenderTag(as) == "<a" \o RenderAttrs(as) \o ">"

Render(d) == d.lead \o RenderTag(d.attrs) \o d.trail

(***************************************************************************)
(* The host pipeline and the hook.                                         *)
(***************************************************************************)
Init ==
    /\ doc \in Docs
    /\ config \in Configs
    /\ html = Render(doc)
    /\ calls = 0
    /\ pc = "config"
    /\ pos = 1
    /\ match = NoMatch
    /\ processed = ""
    /\ matched = FALSE
    /\ full_match = ""
    /\ href = ""
    /\ replaced = ""

\* the host calls on_config before any page is processed
OnConfig ==
    /\ pc = "config"
    /\ config' = on_config(config)
    /\ pc' = "idle"
    /\ UNCHANGED <<doc, html, calls, pos, match, processed, matched, full_match,
                   href, replaced>>

\* the host calls on_page_content(html, page, config, files): re.sub starts
\* scanning html from its first character
OnPageContent ==
    /\ pc = "idle"
    /\ calls' = calls + 1
    /\ pc' = "sub"
    /\ pos' = 1
    /\ match' = Search(html, 1)
    /\ processed' = ""
    /\ matched' = FALSE
    /\ full_match' = ""
    /\ href' = ""
    /\ replaced' = ""
    /\ UNCHANGED <<doc, config, html>>

\* re.sub: the text before the match is copied, the match is replaced by what
\* replace_external_link returns, and the scan resumes after the match
ReSubMatch ==
    /\ pc = "sub"
    /\ match.found
    /\ LET r == replace_external_link(match.group0, match.group1, config) IN
       /\ ~r.raises
       /\ processed' = processed \o SubSeq(html, pos, match.start - 1) \o r.value
       /\ replaced' = r.value
    /\ pos' = match.end + 1
    /\ match' = Search(html, match.end + 1)
    /\ matched' = TRUE
    /\ full_match' = match.group0
    /\ href' = match.group1
    /\ UNCHANGED <<doc, config, html, calls, pc>>

\* re.sub: replace_external_link raises, and the exception leaves the hook
ReSubRaise ==
    /\ pc = "sub"
    /\ match.found
    /\ replace_external_link(match.group0, match.group1, config).raises
    /\ pc' = "raised"
    /\ matched' = TRUE
    /\ full_match' = match.group0
    /\ href' = match.group1
    /\ UNCHANGED <<doc, config, html, calls, pos, match, processed, replaced>>

\* re.sub: no further match; the rest is copied and processed_html returned
ReSubDone ==
    /\ pc = "sub"
    /\ ~match.found
    /\ processed' = processed \o SubSeq(html, pos, Len(html))
    /\ pc' = "returned"
    /\ matched' = FALSE
    /\ UNCHANGED <<doc, config, html, calls, pos, match, full_match, href, replaced>>

\* the hook is run again on its own output
Resubmit ==
    /\ pc = "returned"
    /\ calls < MaxCalls
    /\ html' = processed
    /\ pc' = "idle"
    /\ UNCHANGED <<doc, config, calls, pos, match, processed, matched, full_match,
                   href, replaced>>

Next ==
    \/ OnConfig
    \/ OnPageContent
    \/ ReSubMatch
    \/ ReSubRaise
    \/ ReSubDone
    \/ Resubmit

Spec == Init /\ [][Next]_vars

(***************************************************************************)
(* Vocabulary of the properties: the anchor as the host rendered it, and   *)
(* what a reader of the page takes its link target to be.                  *)
(***************************************************************************)
TargetDirective == "target=\"_blank\" "
RelDirective == "rel=\"noopener noreferrer\" "

\* the opening tag of the page's anchor, as rendered
Tag == RenderTag(doc.attrs)

HasHref == \E i \in 1..Len(doc.attrs) : doc.attrs[i].name = "href"
HrefIndex == CHOOSE i \in 1..Len(doc.attrs) : doc.attrs[i].name = "href"
\* the value of the anchor's href attribute
HrefValue == doc.attrs[HrefIndex].value

\* the authority of a URL; a URL whose authority cannot be parsed has none
Authority(url) == IF urlparse(url).raises THEN "" ELSE urlparse(url).netloc

\* the host of an authority: the part before the port
HostOf(authority) ==
    LET c == Find(authority, ":", 1) IN
    IF c = 0 THEN authority ELSE SubSeq(authority, 1, c - 1)

SiteUrl == ConfigGet(config, "site_url", "")

\* the first on_page_content call on the rendered page has returned
FirstReturned == pc = "returned" /\ calls = 1

\* the output starts with the lead and the anchor's tag exactly as rendered
TagUnchanged == At(processed, 1, doc.lead \o Tag)

\* the number of places where sub occurs in s
Count(s, sub) == Cardinality({i \in 1..Len(s) : At(s, i, sub)})

\* the last step of re.sub replaced a match
Replaced == pc = "sub" /\ matched

\* s with every run of directives that stands right before an href= deleted
RECURSIVE Erase(_)
Erase(s) ==
    LET t == Replace(Replace(s, RelDirective \o "href=", "href="),
                     TargetDirective \o "href=", "href=")
    IN  IF t = s THEN s ELSE Erase(t)

\* the anchor's tag with both directives inserted once, right before its href
\* attribute
AnnotatedTag ==
    LET before == SubSeq(doc.attrs, 1, HrefIndex - 1)
        rest == RenderAttrs(SubSeq(doc.attrs, HrefIndex, Len(doc.attrs)))
    IN  "<a" \o RenderAttrs(before) \o " " \o TargetDirective \o RelDirective
        \o SubSeq(rest, 2, Len(rest)) \o ">"

(***************************************************************************)
(* C1.  With an empty or absent site_url, an anchor whose href has a       *)
(* non-empty, non-loopback authority is returned annotated (its tag is     *)
(* changed), unless it carries target= and rel= already.                   *)
(***************************************************************************)
C1_EmptySiteUrlAnnotates ==
    ( /\ FirstReturned
      /\ SiteUrl = ""
      /\ HasHref
      /\ Authority(HrefValue) # ""
      /\ HostOf(Authority(HrefValue)) \notin Loopback
      /\ ~(Contains(Tag, "target=") /\ Contains(Tag, "rel=")) )
    => ~TagUnchanged

(***************************************************************************)
(* C2.  Loopback exemption: an anchor whose href points to a loopback      *)
(* host, with or without a port, is returned without target or rel added,  *)
(* whatever site_url is.  Stated for an anchor whose only attribute is the *)
(* href.                                                                   *)
(***************************************************************************)
C2_LoopbackExempt ==
    ( /\ FirstReturned
      /\ Len(doc.attrs) = 1
      /\ HasHref
      /\ HostOf(Authority(HrefValue)) \in Loopback )
    => TagUnchanged

(***************************************************************************)
(* C3.  Totality: on_page_content never raises; an href or site_url whose  *)
(* authority cannot be parsed does not propagate a parse error.            *)
(***************************************************************************)
C3_NeverRaises == pc # "raised"

(***************************************************************************)
(* C4.  Idempotence: on_page_content applied to its own output, with the   *)
(* same site_url, returns that output unchanged.                           *)
(***************************************************************************)
C4_Idempotent == (pc = "returned" /\ calls >= 2) => processed = html

(***************************************************************************)
(* C5.  External annotation: with a non-empty site_url, an anchor whose    *)
(* href authority is non-empty, not localhost/127.0.0.1 and not the        *)
(* site's, and whose tag holds neither target= nor rel=, is rewritten to   *)
(* read target, rel, href and then the rest of the original tag.           *)
(***************************************************************************)
C5_ExternalAnnotated ==
    ( /\ FirstReturned
      /\ SiteUrl # ""
      /\ HasHref
      /\ Authority(HrefValue) # ""
      /\ Authority(HrefValue) \notin Loopback
      /\ Authority(HrefValue) # Authority(SiteUrl)
      /\ ~Contains(Tag, "target=")
      /\ ~Contains(Tag, "rel=") )
    => At(processed, 1, doc.lead \o AnnotatedTag)

(***************************************************************************)
(* C6.  Respect existing attributes: replace_external_link adds no target= *)
(* to a tag that contains 'target=', no rel= to a tag that contains        *)
(* 'rel='; a tag with both is returned unchanged; and a tag it annotates   *)
(* gains the target directive when it had no 'target=' and the rel         *)
(* directive when it had no 'rel='.                                        *)
(***************************************************************************)
C6_RespectExisting ==
    Replaced =>
        LET hasTarget == Contains(full_match, "target=")
            hasRel == Contains(full_match, "rel=")
        IN  /\ hasTarget => Count(replaced, "target=") = Count(full_match, "target=")
            /\ hasRel => Count(replaced, "rel=") = Count(full_match, "rel=")
            /\ (hasTarget /\ hasRel) => replaced = full_match
            /\ (replaced # full_match /\ ~hasTarget)
                   => Count(replaced, TargetDirective) > Count(full_match, TargetDirective)
            /\ (replaced # full_match /\ ~hasRel)
                   => Count(replaced, RelDirective) > Count(full_match, RelDirective)

\* a tag with rel= and without target= has been annotated
C6_Witness ==
    /\ Replaced
    /\ Contains(full_match, "rel=")
    /\ ~Contains(full_match, "target=")
    /\ replaced # full_match
    /\ Count(replaced, "rel=") = 1

(***************************************************************************)
(* C7.  Internal links are never annotated: an anchor whose href has no    *)
(* authority (relative, fragment-only, mailto:) or the site's own          *)
(* authority is returned byte-for-byte unchanged.                          *)
(***************************************************************************)
C7_InternalUnchanged ==
    ( /\ FirstReturned
      /\ HasHref
      /\ \/ Authority(HrefValue) = ""
         \/ Authority(HrefValue) = Authority(SiteUrl) )
    => TagUnchanged

(***************************************************************************)
(* C8.  Tags that are not anchors (the lead's area element), and anchors   *)
(* with no attribute named href (data-href does not count), are returned   *)
(* byte-for-byte unchanged.                                                *)
(***************************************************************************)
C8_NoHrefUnchanged ==
    FirstReturned =>
        /\ At(processed, 1, doc.lead)
        /\ ~HasHref => TagUnchanged

(***************************************************************************)
(* C9.  Each directive is inserted at most once per annotated tag, even    *)
(* when the text 'href=' occurs more than once in the tag.                 *)
(***************************************************************************)
C9_InsertedOnce ==
    Replaced =>
        /\ Count(replaced, TargetDirective) <= Count(full_match, TargetDirective) + 1
        /\ Count(replaced, RelDirective) <= Count(full_match, RelDirective) + 1

(***************************************************************************)
(* C10.  Frame: the output is the input with directives inserted before    *)
(* href= and nothing else changed.  At every step of the substitution, and *)
(* on return, deleting the directives that stand before an href= from the  *)
(* output and from the part of html consumed so far leaves the same text   *)
(* (the input itself when it holds no such directive); the text before the *)
(* first match and after the last one is copied as it is; and when html    *)
(* has no match the output equals the input.                               *)
(***************************************************************************)
C10_Frame ==
    /\ pc = "sub" =>
          /\ Erase(processed) = Erase(SubSeq(html, 1, pos - 1))
          /\ Len(processed) >= pos - 1
    /\ pc = "returned" =>
          /\ Erase(processed) = Erase(html)
          /\ Len(processed) >= Len(html)
          /\ SubSeq(processed, Len(processed) - (Len(html) - pos), Len(processed))
                = SubSeq(html, pos, Len(html))
          /\ calls = 1 => At(processed, 1, doc.lead)
          /\ ~Search(html, 1).found => processed = html

\* two tags of one page were annotated, with page text between and after
\* them
C10_Witness ==
    /\ FirstReturned
    /\ Erase(html) = html
    /\ processed # html
    /\ Count(processed, TargetDirective) >= 2
    /\ Contains(html, "\n")

====
